---------------------------- MODULE Spec2Model ----------------------------
(***************************************************************************)
(* Model of the recommendation engine (python/ml_integration.py, MLEngine) *)
(* and of its request bridge (python/java_python_bridge.py).               *)
(*                                                                         *)
(* Numbers.  Ratings and confidences returned by the engine are held in    *)
(* hundredths (3.5 is 350, 0.3 is 30).  Ratings of the training data are   *)
(* whole stars, 0 being the pivot table's fill value.  A cosine similarity *)
(* dot(a,b) / sqrt(dot(a,a) * dot(b,b)) is held exactly, as the record     *)
(* [dot |-> dot(a,b), norms |-> dot(a,a) * dot(b,b)]: the test             *)
(* "similarity > 0.1" is made on these integers, and a similarity used as  *)
(* a weight is taken in hundredths, rounded down.                          *)
(***************************************************************************)
EXTENDS Integers, Sequences, FiniteSets, TLC

VARIABLES
    running,            \* a process holding an MLEngine exists
    models,             \* MLEngine.models: dict, model name -> model object
    artifact,           \* the file models/collaborative_filter.pkl
    user_interactions,  \* rows of the table user_interactions (is.db)
    clock,              \* the reading datetime.now() gave last
    training_data,      \* the rows the model is trained on
    request,            \* the request (or engine call) being answered
    response            \* its result, until it is written out

vars == <<running, models, artifact, user_interactions, clock, training_data,
          request, response>>

-----------------------------------------------------------------------------
(* Bounds of the model *)

SampleUsers == 2     \* how many of the sample generator's users are kept
MaxUsers == 2        \* users of a freely chosen training corpus
MaxCrowd == 11       \* users of a crowd corpus
MaxCandidates == 3   \* longest candidate list of get_recommendations
MaxRows == 2         \* rows the interaction table may hold

\* the sample generator's items that are kept: the first two
KeptSampleItems == {"VEG001", "VEG004"}

\* top_k ranges over -MaxTopK .. MaxTopK
MaxTopK == MaxCandidates + 1

\* the readings of the clock
Timestamps == {1, 2}

-----------------------------------------------------------------------------
(* Identifiers.  Python compares str values lexicographically; IdOrder     *)
(* lists every identifier of the model in that order.                      *)

IdOrder ==
    << "A", "B", "C", "D", "DESSERT003", "E", "F", "G", "GUEST", "H",
       "HEALTH001", "I", "J", "K", "L", "LIVE003", "MEAT001", "NONVEG001",
       "STUDENT001", "SWEET001", "VEG001", "VEG004", "X", "Y", "Z" >>

Rank(id) == CHOOSE k \in 1..Len(IdOrder) : IdOrder[k] = id

\* sorted(S) for a set of identifiers
SortedIds(S) == SelectSeq(IdOrder, LAMBDA x : x \in S)

\* the tag of an absent request field (dict.get returns None)
None == "None"

\* the artifact file when it does not exist
NoFile == [exists |-> FALSE]

PickleFile(model) == [exists |-> TRUE, content |-> model]

Min(a, b) == IF a <= b THEN a ELSE b
Max(a, b) == IF a >= b THEN a ELSE b

\* the sum of the values of a function with a finite domain
RECURSIVE SumFn(_)
SumFn(f) ==
    IF DOMAIN f = {} THEN 0
    ELSE LET x == CHOOSE y \in DOMAIN f : TRUE
         IN f[x] + SumFn([y \in (DOMAIN f) \ {x} |-> f[y]])

\* floor of the square root, by bisection on lo..hi
RECURSIVE ISqrtIn(_, _, _)
ISqrtIn(n, lo, hi) ==
    IF lo >= hi THEN lo
    ELSE LET mid == (lo + hi + 1) \div 2
         IN IF mid * mid <= n THEN ISqrtIn(n, mid, hi) ELSE ISqrtIn(n, lo, mid - 1)

ISqrt(n) == ISqrtIn(n, 0, Min(n, 46340))

\* np.clip(x, lo, hi)
Clip(x, lo, hi) == IF x < lo THEN lo ELSE IF x > hi THEN hi ELSE x

-----------------------------------------------------------------------------
(* Training: _train_collaborative_filtering                                *)

\* data.pivot_table(index='user_id', columns='item_id', values='rating',
\* fill_value=0): sorted labels, the mean of the ratings of a pair, 0 where
\* the pair has no row.
PivotCell(data, u, i) ==
    LET rows == {r \in data : r.user_id = u /\ r.item_id = i}
    IN IF rows = {} THEN 0
       ELSE SumFn([r \in rows |-> r.rating]) \div Cardinality(rows)

PivotTable(data) ==
    LET user_index == SortedIds({r.user_id : r \in data})
        item_index == SortedIds({r.item_id : r \in data})
    IN [index   |-> user_index,
        columns |-> item_index,
        values  |-> [ui \in 1..Len(user_index) |->
                       [ii \in 1..Len(item_index) |->
                          PivotCell(data, user_index[ui], item_index[ii])]]]

Dot(a, b) == SumFn([k \in DOMAIN a |-> a[k] * b[k]])

\* the cosine similarity of two vectors; sklearn gives 0 when one of them is
\* the zero vector
CosineOf(a, b) ==
    IF Dot(a, a) = 0 \/ Dot(b, b) = 0 THEN [dot |-> 0, norms |-> 1]
    ELSE [dot |-> Dot(a, b), norms |-> Dot(a, a) * Dot(b, b)]

\* sklearn.metrics.pairwise.cosine_similarity(rows): rows is a sequence of vectors
cosine_similarity(rows) ==
    [i \in DOMAIN rows |-> [j \in DOMAIN rows |-> CosineOf(rows[i], rows[j])]]

Transpose(pivot) ==
    [ii \in 1..Len(pivot.columns) |->
       [ui \in 1..Len(pivot.index) |-> pivot.values[ui][ii]]]

\* the dict stored as self.models['collaborative'] by a successful training
CollaborativeModel(data) ==
    LET pivot_table == PivotTable(data)
    IN [user_similarity |-> cosine_similarity(pivot_table.values),
        item_similarity |-> cosine_similarity(Transpose(pivot_table)),
        user_index      |-> pivot_table.index,
        item_index      |-> pivot_table.columns,
        pivot_table     |-> pivot_table]

\* the dict stored when scikit-learn cannot be imported
FallbackModel == [fallback |-> TRUE]

\* self.models = {}
EmptyModels == [k \in {} |-> FallbackModel]

SetModel(ms, name, m) ==
    [k \in (DOMAIN ms) \cup {name} |-> IF k = name THEN m ELSE ms[k]]

\* _train_collaborative_filtering(data): the pair (self.models, artifact)
\* it leaves.  An empty DataFrame has no column 'user_id': pivot_table
\* raises, the error is logged and nothing is stored.
TrainCollaborativeFiltering(ms, art, data, sklearn) ==
    IF data = {} THEN [models |-> ms, artifact |-> art]
    ELSE IF ~sklearn THEN [models |-> SetModel(ms, "collaborative", FallbackModel),
                           artifact |-> art]
    ELSE [models   |-> SetModel(ms, "collaborative", CollaborativeModel(data)),
          artifact |-> PickleFile(CollaborativeModel(data))]

-----------------------------------------------------------------------------
(* Prediction: predict_rating, _predict_collaborative                       *)

DefaultRating == 350          \* 3.5
FallbackConfidence == 30      \* 0.3
UnseenConfidence == 20        \* 0.2
ItemAverageConfidence == 40   \* 0.4
MaxNeighbourConfidence == 90  \* 0.9
NeighbourDivisor == 10        \* len(similar_users) / 10.0
SimilarityThresholdTenths == 1  \* user_similarities > 0.1
MinRating == 100              \* np.clip(..., 1.0, 5.0)
MaxRating == 500

Result(rating, confidence, method) ==
    [rating |-> rating, confidence |-> confidence, method |-> method]

\* list.index(x): the position of x in a sequence holding it
IndexOf(seq, x) == CHOOSE k \in 1..Len(seq) : seq[k] = x

InSeq(seq, x) == \E k \in 1..Len(seq) : seq[k] = x

\* user_similarities > 0.1, on the exact similarity
AboveThreshold(s) ==
    /\ s.dot > 0
    /\ 100 * s.dot * s.dot > SimilarityThresholdTenths * SimilarityThresholdTenths * s.norms

\* a similarity as a weight, in hundredths
Weight(s) == ISqrt((s.dot * s.dot * 10000) \div s.norms)

\* np.where(user_similarities > 0.1)[0]: the users are not filtered on
\* having rated the item
SimilarUsers_AnyRating(model, user_idx, item_idx) ==
    {k \in 1..Len(model.user_index) :
        AboveThreshold(model.user_similarity[user_idx][k])}

\* np.where((user_similarities > 0.1) & (item_ratings > 0))[0]
SimilarUsers(model, user_idx, item_idx) ==
    {k \in 1..Len(model.user_index) :
        /\ AboveThreshold(model.user_similarity[user_idx][k])
        /\ model.pivot_table.values[k][item_idx] > 0}

\* np.mean(item_ratings[item_ratings > 0]) and the results built on it
ItemAverage(model, item_idx) ==
    LET rated == {k \in 1..Len(model.user_index) :
                     model.pivot_table.values[k][item_idx] > 0}
    IN IF rated = {}
       THEN Result(DefaultRating, UnseenConfidence, "collaborative")
       ELSE Result((100 * SumFn([k \in rated |-> model.pivot_table.values[k][item_idx]]))
                       \div Cardinality(rated),
                   ItemAverageConfidence, "collaborative")

\* confidence = len(similar_users) / 10.0, the cap of 0.9 forgotten
NeighbourEstimate_Uncapped(model, user_idx, item_idx) ==
    LET similar_users == SimilarUsers(model, user_idx, item_idx)
        weights == [k \in similar_users |-> Weight(model.user_similarity[user_idx][k])]
        ratings == [k \in similar_users |-> model.pivot_table.values[k][item_idx]]
    IN IF similar_users # {} /\ SumFn(weights) > 0
       THEN Result(Clip((100 * SumFn([k \in similar_users |-> ratings[k] * weights[k]]))
                            \div SumFn(weights),
                        MinRating, MaxRating),
                   (100 * Cardinality(similar_users)) \div NeighbourDivisor,
                   "collaborative")
       ELSE ItemAverage(model, item_idx)

\* the branch of _predict_collaborative for a user and an item of the indices
NeighbourEstimate(model, user_idx, item_idx) ==
    LET similar_users == SimilarUsers(model, user_idx, item_idx)
        weights == [k \in similar_users |-> Weight(model.user_similarity[user_idx][k])]
        ratings == [k \in similar_users |-> model.pivot_table.values[k][item_idx]]
    IN IF similar_users # {} /\ SumFn(weights) > 0
       THEN Result(Clip((100 * SumFn([k \in similar_users |-> ratings[k] * weights[k]]))
                            \div SumFn(weights),
                        MinRating, MaxRating),
                   Min((100 * Cardinality(similar_users)) \div NeighbourDivisor,
                       MaxNeighbourConfidence),
                   "collaborative")
       ELSE ItemAverage(model, item_idx)

\* an unseen user or item answered with the confidence of the fallback
PredictCollaborative_UnseenAsFallback(ms, user_id, item_id) ==
    LET model == ms["collaborative"]
    IN IF "fallback" \in DOMAIN model
       THEN Result(DefaultRating, FallbackConfidence, "collaborative")
       ELSE IF ~InSeq(model.user_index, user_id) \/ ~InSeq(model.item_index, item_id)
       THEN Result(DefaultRating, FallbackConfidence, "collaborative")
       ELSE NeighbourEstimate(model, IndexOf(model.user_index, user_id),
                              IndexOf(model.item_index, item_id))

PredictCollaborative(ms, user_id, item_id) ==
    LET model == ms["collaborative"]
    IN IF "fallback" \in DOMAIN model
       THEN Result(DefaultRating, FallbackConfidence, "collaborative")
       ELSE IF ~InSeq(model.user_index, user_id) \/ ~InSeq(model.item_index, item_id)
       THEN Result(DefaultRating, UnseenConfidence, "collaborative")
       ELSE NeighbourEstimate(model, IndexOf(model.user_index, user_id),
                              IndexOf(model.item_index, item_id))

predict_rating(ms, user_id, item_id, method) ==
    IF method \in {"collaborative", "hybrid"} /\ "collaborative" \in DOMAIN ms
    THEN PredictCollaborative(ms, user_id, item_id)
    ELSE Result(DefaultRating, FallbackConfidence, "fallback")

-----------------------------------------------------------------------------
(* Ranking: get_recommendations                                            *)

Recommendation(ms, user_id, item_id) ==
    LET prediction == predict_rating(ms, user_id, item_id, "hybrid")
    IN [item_id          |-> item_id,
        predicted_rating |-> prediction.rating,
        confidence       |-> prediction.confidence,
        method           |-> prediction.method]

\* the sort key: predicted_rating * confidence
Score(rec) == rec.predicted_rating * rec.confidence

\* sorted(...)[::-1]: an ascending sort reversed, which reverses equal keys
InsertByScore_Reversed(sorted, rec) ==
    LET before == {k \in 1..Len(sorted) : Score(sorted[k]) > Score(rec)}
        n == Cardinality(before)
    IN SubSeq(sorted, 1, n) \o <<rec>> \o SubSeq(sorted, n + 1, Len(sorted))

\* one step of list.sort(key=..., reverse=True): the sort is stable, so an
\* entry goes behind every entry already placed whose key is not smaller
InsertByScore(sorted, rec) ==
    LET before == {k \in 1..Len(sorted) : Score(sorted[k]) >= Score(rec)}
        n == Cardinality(before)
    IN SubSeq(sorted, 1, n) \o <<rec>> \o SubSeq(sorted, n + 1, Len(sorted))

RECURSIVE SortByScore(_)
SortByScore(recs) ==
    IF recs = <<>> THEN <<>>
    ELSE InsertByScore(SortByScore(SubSeq(recs, 1, Len(recs) - 1)), recs[Len(recs)])

\* seq[:k]
SliceTo(seq, k) ==
    IF k >= 0 THEN SubSeq(seq, 1, Min(k, Len(seq)))
    ELSE SubSeq(seq, 1, Max(Len(seq) + k, 0))

get_recommendations(ms, user_id, item_ids, top_k) ==
    SliceTo(SortByScore([k \in 1..Len(item_ids) |-> Recommendation(ms, user_id, item_ids[k])]),
            top_k)

-----------------------------------------------------------------------------
(* The sample training data: _generate_sample_training_data                *)

\* items and users, in the order of the source's lists
SampleItemList == << "VEG001", "VEG004", "NONVEG001", "LIVE003", "DESSERT003" >>
SampleUserList == << "STUDENT001", "HEALTH001", "SWEET001", "MEAT001" >>

\* "vegetarian" in tags is a substring test: it also holds of the tags
\* "non-vegetarian"
TagsContainVegetarian(item_id) == TRUE

\* the pairs the generator draws a rating for: HEALTH001 skips an item whose
\* tags do not contain "vegetarian", every other user rates every item
SamplePairs ==
    {p \in {SampleUserList[k] : k \in 1..Min(SampleUsers, Len(SampleUserList))}
           \X {SampleItemList[k] : k \in {j \in 1..Len(SampleItemList) :
                                               SampleItemList[j] \in KeptSampleItems}} :
        p[1] = "HEALTH001" => TagsContainVegetarian(p[2])}

\* a draw of np.random.normal after np.clip(rating, 1.0, 5.0), in whole stars
ClippedDraws == {2, 5}

LowestKeptRating == 3    \* if rating >= 3.0

\* the DataFrames the generator can return: one row per pair whose draw is kept
SampleDataSets ==
    {{[user_id |-> p[1], item_id |-> p[2], rating |-> draw[p]] :
          p \in {q \in SamplePairs : draw[q] >= LowestKeptRating}} :
       draw \in [SamplePairs -> ClippedDraws]}

-----------------------------------------------------------------------------
(* Startup: MLEngine.__init__, _load_models, _train_initial_models          *)

\* _load_models: trains when the artifact file does not exist, and does
\* nothing else
LoadModels(ms, art, data, sklearn) ==
    IF ~art.exists
    THEN TrainCollaborativeFiltering(ms, art, data, sklearn)
    ELSE [models |-> ms, artifact |-> art]

NoRequest == [command |-> "none"]
NoResponse == [status |-> "none"]

Init ==
    /\ running = FALSE
    /\ models = EmptyModels
    /\ artifact = NoFile
    /\ user_interactions = {}
    /\ clock = 0
    /\ training_data \in SampleDataSets
    /\ request = NoRequest
    /\ response = NoResponse

\* JavaPythonBridge() / MLEngine(): _init_database creates the tables if they
\* are missing and keeps their rows; sklearn says whether scikit-learn can be
\* imported in this process
Startup ==
    /\ ~running
    /\ \E sklearn \in BOOLEAN :
         LET loaded == LoadModels(EmptyModels, artifact, training_data, sklearn)
         IN /\ models' = loaded.models
            /\ artifact' = loaded.artifact
    /\ running' = TRUE
    /\ request' = NoRequest
    /\ response' = NoResponse
    /\ UNCHANGED <<user_interactions, clock, training_data>>

\* the process ends; the database and the artifact file stay
Shutdown ==
    /\ running
    /\ response = NoResponse
    /\ running' = FALSE
    /\ models' = EmptyModels
    /\ request' = NoRequest
    /\ response' = NoResponse
    /\ UNCHANGED <<artifact, user_interactions, clock, training_data>>

-----------------------------------------------------------------------------
(* The bridge: JavaPythonBridge.process_java_request and its handlers      *)

\* dict.get(key, default)
Get(d, key, default) == IF key \in DOMAIN d THEN d[key] ELSE default

\* not x, for a string or None
Falsy(x) == x \in {None, ""}

EmptyDict == [k \in {} |-> None]

\* the dicts that hold key with a value of V, or do not hold it
Optional(key, V) == {EmptyDict} \cup {key :> v : v \in V}

DefaultTopK == 5

RequestUsers == {"", "STUDENT001", "GUEST"}
RequestItems == {"VEG001", "Z"}
RequestLists == {<<"VEG001">>, <<"VEG004", "VEG001">>, <<"Z", "VEG004">>}
RequestTopK == {-1, 1}
RequestContexts == {}
RequestMethods == {"collaborative", "content"}
FeedbackUsers == {"", "STUDENT001"}
FeedbackItems == {"VEG001", "VEG004"}
RequestRatings == {0, 5}

\* the lists without repetition of at most n of the identifiers of S
RECURSIVE ListsOf(_, _)
ListsOf(S, n) ==
    IF n = 0 THEN {<<>>}
    ELSE LET shorter == ListsOf(S, n - 1)
         IN shorter \cup {Append(l, x) : l \in shorter, x \in S}

CandidateLists(S) ==
    {l \in ListsOf(S, MaxCandidates) : \A i, j \in 1..Len(l) : l[i] = l[j] => i = j}

Success(key, value) == ("status" :> "success") @@ (key :> value)

Error(message) == [error |-> message]

HandleRatingPredictionResult(ms, data) ==
    LET user_id == Get(data, "user_id", None)
        item_id == Get(data, "item_id", None)
        method  == Get(data, "method", "hybrid")
    IN IF Falsy(user_id) \/ Falsy(item_id)
       THEN Error("Missing user_id or item_id")
       ELSE Success("prediction", predict_rating(ms, user_id, item_id, method))

HandleRatingPrediction ==
    /\ running /\ response = NoResponse
    /\ \E u \in Optional("user_id", RequestUsers),
          i \in Optional("item_id", RequestItems),
          m \in Optional("method", RequestMethods) :
         /\ request' = ("command" :> "predict_rating") @@ u @@ i @@ m
         /\ response' = HandleRatingPredictionResult(models, request')
    /\ UNCHANGED <<running, models, artifact, user_interactions, clock, training_data>>

HandleRecommendationsResult(ms, data) ==
    LET user_id  == Get(data, "user_id", None)
        item_ids == Get(data, "item_ids", <<>>)
        top_k    == Get(data, "top_k", DefaultTopK)
    IN IF Falsy(user_id)
       THEN Error("Missing user_id")
       ELSE Success("recommendations", get_recommendations(ms, user_id, item_ids, top_k))

HandleRecommendations ==
    /\ running /\ response = NoResponse
    /\ \E u \in Optional("user_id", RequestUsers \ {"GUEST"}),
          l \in Optional("item_ids", RequestLists),
          k \in Optional("top_k", RequestTopK) :
         /\ request' = ("command" :> "get_recommendations") @@ u @@ l @@ k
         /\ response' = HandleRecommendationsResult(models, request')
    /\ UNCHANGED <<running, models, artifact, user_interactions, clock, training_data>>

\* INSERT OR REPLACE INTO user_interactions: the primary key is
\* (user_id, item_id, timestamp)
\* PRIMARY KEY (user_id, item_id)
SameKey_NoTimestamp(r, s) ==
    r.user_id = s.user_id /\ r.item_id = s.item_id

SameKey(r, s) ==
    r.user_id = s.user_id /\ r.item_id = s.item_id /\ r.timestamp = s.timestamp

InsertOrReplace(rows, row) == {r \in rows : ~SameKey(r, row)} \cup {row}

\* the feedback stored, then the model trained again on the stored rows
update_model_with_feedback_retrain(ms, rows, user_id, item_id, rating, now, context) ==
    LET stored == InsertOrReplace(rows, [user_id   |-> user_id,
                                         item_id   |-> item_id,
                                         rating    |-> rating,
                                         timestamp |-> now,
                                         context   |-> IF Falsy(context) THEN "" ELSE context])
    IN [models |-> SetModel(ms, "collaborative", CollaborativeModel(stored)),
        user_interactions |-> stored]

\* update_model_with_feedback: self.models and the rows of the table after
\* it; now is the reading of datetime.now()
update_model_with_feedback(ms, rows, user_id, item_id, rating, now, context) ==
    [models |-> ms,
     user_interactions |->
         InsertOrReplace(rows, [user_id   |-> user_id,
                                item_id   |-> item_id,
                                rating    |-> rating,
                                timestamp |-> now,
                                context   |-> IF Falsy(context) THEN "" ELSE context])]

\* all([item_id, rating is not None])
FeedbackAccepted_NoUserCheck(data) ==
    /\ ~Falsy(Get(data, "item_id", None))
    /\ "rating" \in DOMAIN data

\* all([user_id, item_id, rating is not None])
FeedbackAccepted(data) ==
    /\ ~Falsy(Get(data, "user_id", None))
    /\ ~Falsy(Get(data, "item_id", None))
    /\ "rating" \in DOMAIN data

\* now is the reading datetime.now().isoformat() gives: local wall-clock
\* time, which may repeat a reading (the timer's resolution, a clock set back)
HandleFeedbackUpdate ==
    /\ running /\ response = NoResponse
    /\ \E u \in Optional("user_id", FeedbackUsers),
          i \in Optional("item_id", FeedbackItems),
          r \in Optional("rating", RequestRatings),
          c \in Optional("context", RequestContexts),
          now \in Timestamps :
         /\ request' = ("command" :> "update_feedback") @@ u @@ i @@ r @@ c
         /\ IF FeedbackAccepted(request')
            THEN LET updated ==
                         update_model_with_feedback(
                             models, user_interactions, Get(request', "user_id", None),
                             Get(request', "item_id", None), Get(request', "rating", None),
                             now, Get(request', "context", None))
                 IN /\ models' = updated.models
                    /\ user_interactions' = updated.user_interactions
                    /\ Cardinality(user_interactions') <= MaxRows
                    /\ clock' = now
                    /\ response' = Success("message", "Feedback updated")
            ELSE /\ response' = Error("Missing required fields")
                 /\ now = 1
                 /\ UNCHANGED <<models, user_interactions, clock>>
    /\ UNCHANGED <<running, artifact, training_data>>

\* get_model_performance
GetModelPerformance(ms, rows) ==
    [total_interactions |-> Cardinality(rows),
     models_available   |-> DOMAIN ms,
     status             |-> "operational"]

HandlePerformanceMetrics ==
    /\ running /\ response = NoResponse
    /\ request' = [command |-> "get_performance"]
    /\ response' = Success("metrics", GetModelPerformance(models, user_interactions))
    /\ UNCHANGED <<running, models, artifact, user_interactions, clock, training_data>>

HandleUnknownCommand ==
    /\ running /\ response = NoResponse
    /\ \E c \in Optional("command", {"retrain"}) :
         request' = c @@ ("user_id" :> "STUDENT001")
    /\ response' = Error("Unknown command")
    /\ UNCHANGED <<running, models, artifact, user_interactions, clock, training_data>>

\* print(json.dumps(response)): the response leaves the process
Respond ==
    /\ running /\ response # NoResponse
    /\ request' = NoRequest
    /\ response' = NoResponse
    /\ UNCHANGED <<running, models, artifact, user_interactions, clock, training_data>>

Next ==
    \/ Startup
    \/ Shutdown
    \/ HandleRatingPrediction
    \/ HandleRecommendations
    \/ HandleFeedbackUpdate
    \/ HandlePerformanceMetrics
    \/ HandleUnknownCommand
    \/ Respond

Spec == Init /\ [][Next]_vars

-----------------------------------------------------------------------------
(* The engine under any training corpus: _train_collaborative_filtering    *)
(* with a DataFrame of ratings of 1 to 5 stars, then calls of               *)
(* predict_rating and get_recommendations on the engine itself.             *)

CorpusUserList == << "A", "B", "C", "D", "E", "F", "G", "H", "I", "J", "K", "L" >>
CorpusItems == {"X", "Y"}
CorpusRatings == {1, 5}

CorpusUsers(n) == {CorpusUserList[k] : k \in 1..Min(n, Len(CorpusUserList))}

\* every DataFrame holding at most one row per pair of MaxUsers users and
\* the items, with a rating of CorpusRatings
FreeCorpora ==
    {{[user_id |-> p[1], item_id |-> p[2], rating |-> cell[p]] :
          p \in {q \in CorpusUsers(MaxUsers) \X CorpusItems : cell[q] > 0}} :
       cell \in [CorpusUsers(MaxUsers) \X CorpusItems -> {0} \cup CorpusRatings]}

\* MaxCrowd users: the first k rate X with 5 and Y with 1, the others rate
\* only X, with 1
CrowdCorpus(k) ==
    {[user_id |-> CorpusUserList[u], item_id |-> "X", rating |-> IF u <= k THEN 5 ELSE 1] :
        u \in 1..Min(MaxCrowd, Len(CorpusUserList))}
    \cup {[user_id |-> CorpusUserList[u], item_id |-> "Y", rating |-> 1] : u \in 1..k}

CrowdCorpora == {CrowdCorpus(k) : k \in 0..Min(MaxCrowd, Len(CorpusUserList))}

InitCorpus ==
    /\ running = TRUE
    /\ training_data \in FreeCorpora \cup CrowdCorpora
    /\ \E sklearn \in BOOLEAN :
         LET trained == TrainCollaborativeFiltering(EmptyModels, NoFile, training_data, sklearn)
         IN /\ models = trained.models
            /\ artifact = trained.artifact
    /\ user_interactions = {}
    /\ clock = 0
    /\ request = NoRequest
    /\ response = NoResponse

CallUsers == {"A", "B", CorpusUserList[Min(MaxCrowd, Len(CorpusUserList))], "GUEST"}
CallItems == {"X", "Y", "Z"}
CallMethods == {"collaborative", "hybrid", "content"}

\* ml_engine.predict_rating(user_id, item_id, method)
CallPredictRating ==
    /\ running /\ response = NoResponse
    /\ \E u \in CallUsers, i \in CallItems, m \in CallMethods :
         /\ request' = [call |-> "predict_rating", user_id |-> u, item_id |-> i, method |-> m]
         /\ response' = [result |-> predict_rating(models, u, i, m)]
    /\ UNCHANGED <<running, models, artifact, user_interactions, clock, training_data>>

\* ml_engine.get_recommendations(user_id, item_ids, top_k)
CallGetRecommendations ==
    /\ running /\ response = NoResponse
    /\ \E u \in {"A", "GUEST"}, l \in CandidateLists(CallItems), k \in (-MaxTopK)..MaxTopK :
         /\ request' = [call |-> "get_recommendations", user_id |-> u, item_ids |-> l,
                        top_k |-> k]
         /\ response' = [result |-> get_recommendations(models, u, l, k)]
    /\ UNCHANGED <<running, models, artifact, user_interactions, clock, training_data>>

NextCorpus ==
    \/ CallPredictRating
    \/ CallGetRecommendations
    \/ Respond

SpecCorpus == InitCorpus /\ [][NextCorpus]_vars

-----------------------------------------------------------------------------
(* Properties of the engine under any training corpus (SpecCorpus)          *)

IsPredictCall ==
    /\ "call" \in DOMAIN request
    /\ request.call = "predict_rating"
    /\ "result" \in DOMAIN response

IsRecommendationsCall ==
    /\ "call" \in DOMAIN request
    /\ request.call = "get_recommendations"
    /\ "result" \in DOMAIN response

\* a collaborative model with trained indices is loaded
Trained(ms) ==
    /\ "collaborative" \in DOMAIN ms
    /\ "user_index" \in DOMAIN ms["collaborative"]

\* C1: whatever the engine state after startup (trained, no-model marker,
\* no model), the user, the item and the method, predict_rating returns a
\* rating within [1,5] and a confidence within [0,1].
C1_RatingAndConfidenceInRange ==
    IsPredictCall =>
        /\ response.result.rating >= 100 /\ response.result.rating <= 500
        /\ response.result.confidence >= 0 /\ response.result.confidence <= 100

\* C1, witness: a neighbour-weighted estimate that is no whole number of
\* stars, over enough neighbours for the confidence to reach its cap.
C1_Witness ==
    /\ IsPredictCall
    /\ Trained(models)
    /\ response.result.confidence = 90
    /\ response.result.rating \notin {100, 350, 500}

\* C9: with a trained collaborative model and the method collaborative or
\* hybrid, a user outside user_index or an item outside item_index gets
\* {rating 3.5, confidence 0.2, method collaborative}: confidence <= 0.2.
C9_UnseenEntityLowConfidence ==
    (/\ IsPredictCall
     /\ Trained(models)
     /\ request.method \in {"collaborative", "hybrid"}
     /\ \/ ~InSeq(models["collaborative"].user_index, request.user_id)
        \/ ~InSeq(models["collaborative"].item_index, request.item_id))
    => /\ response.result = [rating |-> 350, confidence |-> 20, method |-> "collaborative"]
       /\ response.result.confidence <= 20

\* C9, witness: a user of the trained index asks for an item outside it.
C9_Witness ==
    /\ IsPredictCall
    /\ Trained(models)
    /\ request.method = "hybrid"
    /\ InSeq(models["collaborative"].user_index, request.user_id)
    /\ ~InSeq(models["collaborative"].item_index, request.item_id)
    /\ response.result.confidence = 20

\* the corpus A/X=5, A/Y=1, B/Y=1: B's rating of X is masked
MaskedCorpus ==
    {[user_id |-> "A", item_id |-> "X", rating |-> 5],
     [user_id |-> "A", item_id |-> "Y", rating |-> 1],
     [user_id |-> "B", item_id |-> "Y", rating |-> 1]}

\* the neighbour set as the claim defines it, from the source matrix alone:
\* the users whose row has a cosine above 0.1 with the row of user u and
\* who rated item i
ClaimNeighbours(model, u, i) ==
    LET row(k) == model.pivot_table.values[k]
    IN {k \in 1..Len(model.user_index) :
          /\ Dot(row(u), row(k)) > 0
          /\ 100 * Dot(row(u), row(k)) * Dot(row(u), row(k))
                > Dot(row(u), row(u)) * Dot(row(k), row(k))
          /\ row(k)[i] > 0}

\* C10: for a user and an item of the trained indices, a non-empty
\* neighbour set N gives the similarity-weighted average of N's ratings,
\* clipped to [1,5], with confidence min(|N|/10, 0.9); an empty N gives the
\* mean of the item's nonzero ratings with confidence 0.4, or
\* {3.5, 0.2, collaborative} when nobody rated the item.  With A/X=5, A/Y=1,
\* B/Y=1, predicting B/X has A as its only neighbour and returns 5.0.
C10_NeighbourWeightedEstimate ==
    (/\ IsPredictCall
     /\ Trained(models)
     /\ request.method \in {"collaborative", "hybrid"}
     /\ InSeq(models["collaborative"].user_index, request.user_id)
     /\ InSeq(models["collaborative"].item_index, request.item_id))
    => LET model == models["collaborative"]
           u == IndexOf(model.user_index, request.user_id)
           i == IndexOf(model.item_index, request.item_id)
           N == ClaimNeighbours(model, u, i)
           rating(k) == model.pivot_table.values[k][i]
           weight(k) == Weight(model.user_similarity[u][k])
           W == SumFn([k \in N |-> weight(k)])
           S == SumFn([k \in N |-> 100 * rating(k) * weight(k)])
           raters == {k \in 1..Len(model.user_index) : rating(k) # 0}
           result == response.result
       IN /\ N # {} =>
               /\ result.rating = Clip(S \div W, 100, 500)
               /\ \E lo, hi \in N :
                      100 * rating(lo) <= result.rating /\ result.rating <= 100 * rating(hi)
               /\ result.confidence = Min(10 * Cardinality(N), 90)
               /\ result.method = "collaborative"
          /\ (N = {} /\ raters # {}) =>
               result = [rating |-> (100 * SumFn([k \in raters |-> rating(k)]))
                                        \div Cardinality(raters),
                         confidence |-> 40, method |-> "collaborative"]
          /\ (N = {} /\ raters = {}) =>
               result = [rating |-> 350, confidence |-> 20, method |-> "collaborative"]
          /\ (training_data = MaskedCorpus /\ request.user_id = "B" /\ request.item_id = "X") =>
               /\ N = {IndexOf(model.user_index, "A")}
               /\ result.rating = 500

\* C10, witness: the masked corpus is trained on and B/X is predicted.
C10_Witness ==
    /\ IsPredictCall
    /\ Trained(models)
    /\ training_data = MaskedCorpus
    /\ request.user_id = "B" /\ request.item_id = "X" /\ request.method = "hybrid"
    /\ response.result.rating = 500

\* the score of an entry of a ranking, as the claims define it
ClaimScore(entry) == entry.predicted_rating * entry.confidence

\* C3 as stated: the entries are in descending order of
\* predicted_rating * confidence, and two entries of equal score are in
\* ascending order of item_id.
C3_TiesByAscendingItemId ==
    IsRecommendationsCall =>
        \A p \in 1..(Len(response.result) - 1) :
            LET a == response.result[p]
                b == response.result[p + 1]
            IN \/ ClaimScore(a) > ClaimScore(b)
               \/ ClaimScore(a) = ClaimScore(b) /\ Rank(a.item_id) < Rank(b.item_id)

\* C3 as amended: the entries are in descending order of
\* predicted_rating * confidence, and two entries of equal score are in the
\* order their items have in the candidate list.
C3_TiesInCandidateOrder ==
    IsRecommendationsCall =>
        \A p, q \in 1..Len(response.result) :
            p < q =>
                LET a == response.result[p]
                    b == response.result[q]
                IN /\ ClaimScore(a) >= ClaimScore(b)
                   /\ ClaimScore(a) = ClaimScore(b) =>
                          IndexOf(request.item_ids, a.item_id)
                              < IndexOf(request.item_ids, b.item_id)

\* C3, witness: a ranking whose first entry outscores a later one that came
\* earlier in the candidate list, and that holds two entries of equal score
\* in descending order of item_id.
C3_Witness ==
    /\ IsRecommendationsCall
    /\ Trained(models)
    /\ Len(response.result) = 3
    /\ ClaimScore(response.result[1]) > ClaimScore(response.result[2])
    /\ IndexOf(request.item_ids, response.result[1].item_id)
          > IndexOf(request.item_ids, response.result[2].item_id)
    /\ ClaimScore(response.result[2]) = ClaimScore(response.result[3])
    /\ Rank(response.result[2].item_id) > Rank(response.result[3].item_id)

\* C4: get_recommendations returns exactly min(max(top_k, 0), n) entries for
\* a candidate list of n items: none when top_k <= 0, all when top_k > n.
C4_LengthIsTopKWithinBounds ==
    IsRecommendationsCall =>
        Len(response.result) = Min(Max(request.top_k, 0), Len(request.item_ids))

-----------------------------------------------------------------------------
(* Properties of the bridge process over its restarts (Spec)               *)

\* the bridge answered a predict_rating request with a prediction
IsPrediction ==
    /\ "command" \in DOMAIN request
    /\ request.command = "predict_rating"
    /\ "prediction" \in DOMAIN response

\* no usable SimilarityModel: nothing trained, the training failed, or the
\* no-model marker stored
NoUsableModel(ms) ==
    \/ "collaborative" \notin DOMAIN ms
    \/ "fallback" \in DOMAIN ms["collaborative"]

\* C2: when no usable SimilarityModel exists, every prediction is exactly
\* {rating 3.5, confidence 0.3, method fallback}, whatever the method asked.
C2_NoModelMeansFallbackResult ==
    (IsPrediction /\ NoUsableModel(models)) =>
        response.prediction = [rating |-> 350, confidence |-> 30, method |-> "fallback"]

\* total_interactions as get_model_performance reports it
TotalInteractions(ms, rows) == GetModelPerformance(ms, rows).total_interactions

\* the step is a successful update_model_with_feedback
FeedbackSucceeds == response = NoResponse /\ "message" \in DOMAIN response'

\* C5 as stated: every successful update_model_with_feedback raises the
\* reported total_interactions by exactly 1, also when the pair is the same
\* and the timestamp read is one read before.
C5_EveryFeedbackAddsOneRow ==
    [][FeedbackSucceeds =>
          TotalInteractions(models', user_interactions')
              = TotalInteractions(models, user_interactions) + 1]_vars

\* C5 as amended: a successful update_model_with_feedback raises the
\* reported total_interactions by exactly 1 unless a row with the same
\* user_id, item_id and timestamp is stored already; then that row is
\* replaced and the total stays.
C5_FeedbackAddsOneRowUnlessSameKey ==
    [][FeedbackSucceeds =>
          LET stored == \E r \in user_interactions :
                            /\ r.user_id = request'.user_id
                            /\ r.item_id = request'.item_id
                            /\ r.timestamp = clock'
          IN /\ TotalInteractions(models', user_interactions')
                  = TotalInteractions(models, user_interactions) + (IF stored THEN 0 ELSE 1)
             /\ \E r \in user_interactions' :
                    /\ r.user_id = request'.user_id
                    /\ r.item_id = request'.item_id
                    /\ r.timestamp = clock'
                    /\ r.rating = request'.rating]_vars

\* C5, witness: feedback was just stored and the table holds two rows of
\* one pair: repeated feedback for the pair accumulated.
C5_Witness ==
    /\ "message" \in DOMAIN response
    /\ \E r, t \in user_interactions :
           r.user_id = t.user_id /\ r.item_id = t.item_id /\ r.timestamp # t.timestamp

C7_OnlyAcceptedFeedbackWrites ==
    [][/\ (user_interactions' # user_interactions) =>
              /\ "command" \in DOMAIN request'
              /\ request'.command = "update_feedback"
              /\ {"user_id", "item_id", "rating"} \subseteq DOMAIN request'
              /\ "message" \in DOMAIN response'
       /\ ("error" \in DOMAIN response') => user_interactions' = user_interactions
       /\ ("metrics" \in DOMAIN response') =>
              /\ user_interactions' = user_interactions
              /\ response'.metrics.total_interactions = Cardinality(user_interactions)]_vars

\* C7, witness: an update_feedback request lacking a required field is
\* rejected while rows are stored.
C7_Witness ==
    /\ "command" \in DOMAIN request
    /\ request.command = "update_feedback"
    /\ "user_id" \notin DOMAIN request
    /\ "error" \in DOMAIN response
    /\ user_interactions # {}

\* C8: a process that started with the artifact present holds the
\* collaborative model the artifact was written from.
C8_ArtifactIsLoadedAtStartup ==
    (running /\ artifact.exists) =>
        /\ "collaborative" \in DOMAIN models
        /\ models["collaborative"] = artifact.content

=============================================================================
